---- MODULE Spec2Model ----
(***************************************************************************)
(* Family Calendar: the Flask handlers of app.py over the SQLite database  *)
(* that init_db.py creates.                                                *)
(*                                                                         *)
(* Text values (titles, dates, times, timestamps) are tuples of one-       *)
(* character strings so that strip(), the f-string formatting and SQLite's *)
(* BINARY text comparison are computed rather than assumed.  An optional   *)
(* value (a JSON key that may be missing, a nullable column, the session)  *)
(* is a tuple of length 0 or 1: <<>> is missing/NULL, <<v>> is v.          *)
(***************************************************************************)
EXTENDS Integers, Sequences, FiniteSets, TLC

\* ------------------------------------------------------------------ bounds
MaxEvents == 1          \* INSERTs that may succeed in one behaviour
MaxClock == 1           \* wall-clock ticks in one behaviour
TicksPerSecond == 2     \* clock ticks per second (microseconds, scaled down)

Clients == {"c1", "c2"} \* browser sessions (cookies)

\* ------------------------------------------------------------ optionals
None == <<>>
Some(v) == <<v>>
\* dict.get(key, default)
Get(opt, default) == IF opt = None THEN default ELSE opt[1]

\* ------------------------------------------------------------------ text
Space == " "
Digit(n) == CASE n = 0 -> "0" [] n = 1 -> "1" [] n = 2 -> "2" [] n = 3 -> "3"
              [] n = 4 -> "4" [] n = 5 -> "5" [] n = 6 -> "6" [] n = 7 -> "7"
              [] n = 8 -> "8" [] n = 9 -> "9"
\* code point of the characters that occur in stored text
Ord(ch) == CASE ch = " " -> 32 [] ch = "-" -> 45 [] ch = "." -> 46 [] ch = ":" -> 58
             [] ch = "0" -> 48 [] ch = "1" -> 49 [] ch = "2" -> 50
             [] ch = "3" -> 51 [] ch = "4" -> 52 [] ch = "5" -> 53
             [] ch = "6" -> 54 [] ch = "7" -> 55 [] ch = "8" -> 56
             [] ch = "9" -> 57 [] ch = "a" -> 97 [] ch = "b" -> 98
             [] ch = "c" -> 99 [] ch = "t" -> 116

\* str.strip(): drop leading and trailing whitespace
RECURSIVE LStrip(_)
LStrip(s) == IF s # <<>> /\ Head(s) = Space THEN LStrip(Tail(s)) ELSE s
RECURSIVE RStrip(_)
RStrip(s) == IF s # <<>> /\ s[Len(s)] = Space
             THEN RStrip(SubSeq(s, 1, Len(s) - 1)) ELSE s
Strip(s) == RStrip(LStrip(s))

\* SQLite BINARY collation: memcmp, a proper prefix sorts first
RECURSIVE TextLess(_, _)
TextLess(a, b) ==
    IF b = <<>> THEN FALSE
    ELSE IF a = <<>> THEN TRUE
    ELSE IF Ord(Head(a)) # Ord(Head(b)) THEN Ord(Head(a)) < Ord(Head(b))
    ELSE TextLess(Tail(a), Tail(b))
TextLeq(a, b) == a = b \/ TextLess(a, b)

\* str(n) for n >= 0
RECURSIVE IntStr(_)
IntStr(n) == IF n < 10 THEN <<Digit(n)>> ELSE IntStr(n \div 10) \o <<Digit(n % 10)>>
\* int(s) for a string of decimal digits
RECURSIVE StrInt(_)
StrInt(s) == IF s = <<>> THEN 0
             ELSE StrInt(SubSeq(s, 1, Len(s) - 1)) * 10 + (Ord(s[Len(s)]) - 48)
\* format spec "0>2": right-align in width 2, fill with "0"
Pad2(s) == IF Len(s) >= 2 THEN s ELSE IF Len(s) = 1 THEN <<"0">> \o s ELSE <<"0", "0">>

\* ----------------------------------------------------------------- users
\* the four rows init_db.py inserts; AUTOINCREMENT gives them ids 1..4
Users == { [id |-> 1, name |-> "Family Member A", color |-> "#4A90D9"],
           [id |-> 2, name |-> "Family Member B", color |-> "#D94A4A"],
           [id |-> 3, name |-> "Family Member C", color |-> "#4AD97B"],
           [id |-> 4, name |-> "Family Member D", color |-> "#D9A84A"] }
\* (faulty variant: the WHERE clause is missing)
SelectFirstUser(uid) == Some(CHOOSE u \in Users : \A v \in Users : u.id <= v.id)
\* SELECT * FROM users WHERE id = ?  (fetchone)
SelectUser(uid) == IF \E u \in Users : u.id = uid
                   THEN Some(CHOOSE u \in Users : u.id = uid) ELSE None

VARIABLES
    timeColumns,  \* does the events table have start_time and end_time columns
    session,      \* session[c]: the Flask session of client c (optional)
    events,       \* committed rows of the events table
    seq,          \* sqlite_sequence value for events (AUTOINCREMENT)
    clock,        \* wall clock, in ticks
    resp,         \* the response to the latest request
    work,         \* work[c]: the handler of c that is between two storage steps
    txn           \* the open write transaction (optional): its owner and its rows

vars == <<timeColumns, session, events, seq, clock, resp, work, txn>>

\* datetime.now().isoformat(): the fraction is left out when it is zero
\* (the seconds field has two digits; the earlier fields are taken as equal)
IsoFormat(t) == IF t % TicksPerSecond = 0
                THEN Pad2(IntStr(t \div TicksPerSecond))
                ELSE Pad2(IntStr(t \div TicksPerSecond)) \o <<".">>
                     \o IntStr(t % TicksPerSecond)

NoResp == [op |-> "none", client |-> "none", status |-> 0, req |-> None, body |-> None]
Resp(o, c, st, rq, b) == [op |-> o, client |-> c, status |-> st, req |-> rq, body |-> b]

\* no handler of the client is running
Idle == [pc |-> "idle"]

\* 'user_id' in session
LoggedIn(c) == session[c] # None

\* init_db.py creates the tables and the four users; the events table is
\* empty.  Its CREATE TABLE has no start_time/end_time column although every
\* statement of app.py that writes or sorts events names them, so the model
\* covers both the table exactly as created (timeColumns = FALSE) and the
\* table carrying the two columns app.py uses (timeColumns = TRUE).
Init ==
    /\ timeColumns \in BOOLEAN
    /\ session = [c \in Clients |-> None]
    /\ events = {}
    /\ seq = 0
    /\ clock = 0
    /\ resp = NoResp
    /\ work = [c \in Clients |-> Idle]
    /\ txn = None

\* POST /api/login
Login(c, data) ==
    LET user_id == Get(data.user_id, 0)
        user == SelectUser(user_id)
    IN  /\ IF user_id = 0
           THEN /\ resp' = Resp("login", c, 400, data, None)
                /\ UNCHANGED session
           ELSE IF user = None
           THEN /\ resp' = Resp("login", c, 404, data, None)
                /\ UNCHANGED session
           ELSE /\ session' = [session EXCEPT ![c] =
                        Some([user_id |-> user[1].id, user_name |-> user[1].name])]
                /\ resp' = Resp("login", c, 200, data, user[1])
        /\ UNCHANGED <<work, txn, timeColumns, events, seq, clock>>

\* (faulty variant: the session is not cleared)
LogoutKeepsSession(c) ==
    /\ resp' = Resp("logout", c, 200, None, None)
    /\ UNCHANGED <<work, txn, timeColumns, session, events, seq, clock>>

\* POST /api/logout
Logout(c) ==
    /\ session' = [session EXCEPT ![c] = None]
    /\ resp' = Resp("logout", c, 200, None, None)
    /\ UNCHANGED <<work, txn, timeColumns, events, seq, clock>>

\* GET /api/current-user
CurrentUserBody(c) == IF ~LoggedIn(c) THEN None ELSE SelectUser(session[c][1].user_id)
GetCurrentUser(c) ==
    /\ resp' = Resp("current_user", c, 200, None, CurrentUserBody(c))
    /\ UNCHANGED <<work, txn, timeColumns, session, events, seq, clock>>

\* ---------------------------------------------------------------- events
\* one row of the events table (init_db.py columns, plus the two app.py names)
Row(id, title, date, start_time, end_time, user_id, created_at) ==
    [id |-> id, title |-> title, date |-> date, time |-> None,
     start_time |-> start_time, end_time |-> end_time,
     user_id |-> user_id, created_at |-> created_at]

\* SELECT * FROM events WHERE id = ?  (fetchone)
SelectEvent(tbl, id) == IF \E e \in tbl : e.id = id
                        THEN Some(CHOOSE e \in tbl : e.id = id) ELSE None

\* SELECT e.*, u.name as user_name, u.color as user_color
\* FROM events e JOIN users u ON e.user_id = u.id
Enrich(e, u) == [event |-> e, user_name |-> u.name, user_color |-> u.color]
JoinUsers(tbl) == { Enrich(p[1], p[2]) :
                      p \in { q \in tbl \X Users : q[1].user_id = Some(q[2].id) } }
\* ... WHERE e.id = ?  (fetchone)
SelectEnriched(tbl, id) ==
    IF \E j \in JoinUsers(tbl) : j.event.id = id
    THEN Some(CHOOSE j \in JoinUsers(tbl) : j.event.id = id) ELSE None

\* x or None
OrNone(x) == IF x = <<>> THEN None ELSE Some(x)

\* INSERT INTO events (title, date, start_time, end_time, user_id, created_at)
InsertEvent(tbl, id, title, date, start_time, end_time, user_id, created_at) ==
    tbl \cup {Row(id, title, date, OrNone(start_time), OrNone(end_time),
                  user_id, created_at)}

\* UPDATE events SET title = ?, date = ?, start_time = ?, end_time = ?,
\* user_id = ? WHERE id = ?
UpdateEvent(tbl, id, title, date, start_time, end_time, user_id) ==
    { IF e.id = id
      THEN [e EXCEPT !.title = title, !.date = date,
                     !.start_time = OrNone(start_time),
                     !.end_time = OrNone(end_time), !.user_id = user_id]
      ELSE e : e \in tbl }

\* DELETE FROM events WHERE id = ?
DeleteEvent(tbl, id) == { e \in tbl : e.id # id }

\* user_id INTEGER NOT NULL: a statement that would store NULL raises
ViolatesNotNull(tbl, id, user_id) == user_id = None /\ SelectEvent(tbl, id) # None

\* (faulty variant: the required fields are not validated)
NeverFalsy(x) == FALSE
\* not title / not date
Falsy(x) == x = <<>>

\* POST /api/events; now is what datetime.now() reads
CreateEventAt(c, data, now) ==
    LET title == Strip(Get(data.title, <<>>))
        date == Get(data.date, <<>>)
        start_time == Get(data.start_time, <<>>)
        end_time == Get(data.end_time, <<>>)
        user_id == IF data.user_id = None THEN session[c][1].user_id
                   ELSE data.user_id[1]
        id == seq + 1
        tbl == InsertEvent(events, id, title, date, start_time, end_time,
                           Some(user_id), IsoFormat(now))
        event == SelectEnriched(tbl, id)
    IN  /\ IF ~LoggedIn(c)
           THEN /\ resp' = Resp("create", c, 401, data, None)
                /\ UNCHANGED <<events, seq, clock>>
           ELSE IF Falsy(title) \/ Falsy(date)
           THEN /\ resp' = Resp("create", c, 400, data, None)
                /\ UNCHANGED <<events, seq, clock>>
           ELSE IF ~timeColumns
           THEN \* OperationalError: table events has no column named start_time
                /\ resp' = Resp("create", c, 500, data, None)
                /\ UNCHANGED <<events, seq, clock>>
           ELSE /\ events' = tbl
                /\ seq' = id
                /\ clock' = now
                /\ resp' = IF event = None
                           THEN \* dict(None) raises after the commit
                                Resp("create", c, 500, data, None)
                           ELSE Resp("create", c, 201, data, event[1])
        /\ UNCHANGED <<work, txn, timeColumns, session>>

\* the wall clock does not run backwards
CreateEvent(c, data) ==
    \E now \in clock..(clock + 1) : CreateEventAt(c, data, now)

\* GET /api/events/<id>
GetEventResp(c, tbl, event_id) ==
    LET event == SelectEnriched(tbl, event_id)
    IN  IF event = None
        THEN Resp("get", c, 404, event_id, None)
        ELSE Resp("get", c, 200, event_id, event[1])
GetEvent(c, event_id) ==
        /\ resp' = GetEventResp(c, events, event_id)
        /\ UNCHANGED <<work, txn, timeColumns, session, events, seq, clock>>

\* PUT /api/events/<id>
PutEvent(c, event_id, data) ==
    LET title == Strip(Get(data.title, <<>>))
        date == Get(data.date, <<>>)
        start_time == Get(data.start_time, <<>>)
        end_time == Get(data.end_time, <<>>)
        user_id == data.user_id
        rq == [id |-> event_id, data |-> data]
        tbl == UpdateEvent(events, event_id, title, date, start_time, end_time, user_id)
        event == SelectEnriched(tbl, event_id)
    IN  /\ IF ~LoggedIn(c)
           THEN /\ resp' = Resp("update", c, 401, rq, None)
                /\ UNCHANGED events
           ELSE IF Falsy(title) \/ Falsy(date)
           THEN /\ resp' = Resp("update", c, 400, rq, None)
                /\ UNCHANGED events
           ELSE IF SelectEvent(events, event_id) = None
           THEN /\ resp' = Resp("update", c, 404, rq, None)
                /\ UNCHANGED events
           ELSE IF ~timeColumns \/ ViolatesNotNull(events, event_id, user_id)
           THEN \* OperationalError / IntegrityError: nothing is committed
                /\ resp' = Resp("update", c, 500, rq, None)
                /\ UNCHANGED events
           ELSE /\ events' = tbl
                /\ resp' = IF event = None
                           THEN Resp("update", c, 500, rq, None)
                           ELSE Resp("update", c, 200, rq, event[1])
        /\ UNCHANGED <<work, txn, timeColumns, session, seq, clock>>

\* (faulty variant: the session check is missing)
RemoveEventNoSession(c, event_id) ==
    /\ IF \A e \in events : e.id # event_id
       THEN /\ resp' = Resp("delete", c, 404, event_id, None)
            /\ UNCHANGED events
       ELSE /\ events' = { e \in events : e.id # event_id }
            /\ resp' = Resp("delete", c, 200, event_id, None)
    /\ UNCHANGED <<work, txn, timeColumns, session, seq, clock>>

\* DELETE /api/events/<id>
RemoveEvent(c, event_id) ==
    /\ IF ~LoggedIn(c)
       THEN /\ resp' = Resp("delete", c, 401, event_id, None)
            /\ UNCHANGED events
       ELSE IF SelectEvent(events, event_id) = None
       THEN /\ resp' = Resp("delete", c, 404, event_id, None)
            /\ UNCHANGED events
       ELSE /\ events' = DeleteEvent(events, event_id)
            /\ resp' = Resp("delete", c, 200, event_id, None)
    /\ UNCHANGED <<work, txn, timeColumns, session, seq, clock>>

\* ------------------------------------------------------------- orderings
\* the result orders an ORDER BY may give: every enumeration of S in which
\* no element comes after one that sorts strictly behind it
\* (before: the pairs <<x, y>> with x sorting strictly ahead of y)
RECURSIVE Orderings(_, _)
Orderings(S, before) ==
    IF S = {} THEN {<<>>}
    ELSE UNION { { <<m>> \o rest : rest \in Orderings(S \ {m}, before) } :
                 m \in { x \in S : \A y \in S : <<y, x>> \notin before } }

\* NULL sorts before every text value
OptTextLess(a, b) == IF a = None THEN b # None
                     ELSE IF b = None THEN FALSE ELSE TextLess(a[1], b[1])

\* ORDER BY e.date, e.start_time
EventBefore(j, k) ==
    \/ TextLess(j.event.date, k.event.date)
    \/ /\ j.event.date = k.event.date
       /\ OptTextLess(j.event.start_time, k.event.start_time)

OrderedEvents(S) == Orderings(S, { p \in S \X S : EventBefore(p[1], p[2]) })

\* start_date and end_date of GET /api/events?year=&month=
StartDate(year, month) == year \o <<"-">> \o Pad2(month) \o <<"-", "0", "1">>
EndDate(year, month) ==
    IF StrInt(month) = 12
    THEN IntStr(StrInt(year) + 1) \o <<"-", "0", "1", "-", "0", "1">>
    ELSE year \o <<"-">> \o Pad2(IntStr(StrInt(month) + 1)) \o <<"-", "0", "1">>

\* ... WHERE e.date >= ? AND e.date < ?
EventsBetween(tbl, start_date, end_date) ==
    { j \in JoinUsers(tbl) : /\ TextLeq(start_date, j.event.date)
                             /\ TextLess(j.event.date, end_date) }

\* the rows GET /api/events selects
ListedEvents(tbl, year, month) ==
    IF year # <<>> /\ month # <<>>
    THEN EventsBetween(tbl, StartDate(year, month), EndDate(year, month))
    ELSE JoinUsers(tbl)

\* GET /api/events
ListEvents(c, year, month) ==
    LET rq == [year |-> year, month |-> month]
    IN  /\ IF ~timeColumns
           THEN \* OperationalError: no such column: e.start_time
                resp' = Resp("list", c, 500, rq, None)
           ELSE \E body \in OrderedEvents(ListedEvents(events, year, month)) :
                    resp' = Resp("list", c, 200, rq, body)
        /\ UNCHANGED <<work, txn, timeColumns, session, events, seq, clock>>

\* --------------------------------------------------------- saved titles
LimitTitles == 10
\* SELECT title, MAX(created_at) as last_used FROM events
\* WHERE user_id = ? GROUP BY title
RECURSIVE MaxText(_)
MaxText(S) == LET x == CHOOSE y \in S : TRUE
              IN  IF S = {x} THEN x
                  ELSE LET m == MaxText(S \ {x})
                       IN  IF TextLess(m, x) THEN x ELSE m
TitleGroups(tbl, user_id) ==
    { [title |-> t,
       last_used |-> MaxText({ e.created_at : e \in
                       { x \in tbl : x.user_id = Some(user_id) /\ x.title = t } })] :
      t \in { e.title : e \in { x \in tbl : x.user_id = Some(user_id) } } }
\* ORDER BY last_used DESC
GroupBefore(g, h) == TextLess(h.last_used, g.last_used)
OrderedGroups(S) == Orderings(S, { p \in S \X S : GroupBefore(p[1], p[2]) })
\* (faulty variant: the LIMIT clause is missing)
Unlimited(sq, n) == sq
\* LIMIT 10
Limit(sq, n) == SubSeq(sq, 1, IF Len(sq) < n THEN Len(sq) ELSE n)
\* [t['title'] for t in titles], for every order the ORDER BY may give
SavedTitles(tbl, user_id) ==
    { [i \in 1..Len(Limit(sq, LimitTitles)) |-> sq[i].title] :
      sq \in OrderedGroups(TitleGroups(tbl, user_id)) }

\* GET /api/saved-titles
GetSavedTitles(c) ==
    /\ IF ~LoggedIn(c)
       THEN resp' = Resp("saved_titles", c, 200, None, <<>>)
       ELSE \E titles \in SavedTitles(events, session[c][1].user_id) :
                resp' = Resp("saved_titles", c, 200, None, titles)
    /\ UNCHANGED <<work, txn, timeColumns, session, events, seq, clock>>

\* ------------------------------------------------------- request inputs
TitleA == <<"a">>
TitleB == <<"b">>
Blank == <<" ">>
Date1 == <<"2", "0", "2", "4", "-", "1", "2", "-", "0", "5">>
Date2 == <<"2", "0", "2", "5", "-", "0", "1", "-", "0", "1">>
Time9 == <<"0", "9", ":", "0", "0">>
Time10 == <<"1", "0", ":", "0", "0">>
\* an id that no row of users has
Ghost == Cardinality(Users) + 1

\* the JSON body of POST /api/events and PUT /api/events/<id>
Payload(title, date, start_time, end_time, user_id) ==
    [title |-> title, date |-> date, start_time |-> start_time,
     end_time |-> end_time, user_id |-> user_id]

LoginInputs == { [user_id |-> None], [user_id |-> Some(1)],
                 [user_id |-> Some(2)], [user_id |-> Some(Ghost)] }
EventInputs ==
    { Payload(Some(Blank), Some(Date1), None, None, None),
      Payload(Some(TitleA), None, None, None, Some(1)),
      Payload(Some(TitleA), Some(Date1), None, None, None),
      Payload(Some(Blank \o TitleB \o Blank), Some(Date2), Some(Time9), Some(Time10), Some(2)),
      Payload(Some(TitleA), Some(Date1), Some(Time9), None, Some(Ghost)) }
EventIds == 1..(MaxEvents + 1)
Year2024 == <<"2", "0", "2", "4">>
ListInputs == { [year |-> <<>>, month |-> <<>>],
                [year |-> Year2024, month |-> <<"1", "2">>] }

\* the requests clients C may send, with bodies and parameters from the given
\* sets, as long as at most MaxEvents rows were inserted within MaxClock ticks
Requests(C, logins, payloads, ids, queries) ==
    \/ \E c \in C, data \in logins : Login(c, data)
    \/ \E c \in C : Logout(c)
    \/ \E c \in C : GetCurrentUser(c)
    \/ \E c \in C : GetSavedTitles(c)
    \/ \E c \in C, q \in queries : ListEvents(c, q.year, q.month)
    \/ \E c \in C, data \in payloads :
          CreateEvent(c, data) /\ seq' <= MaxEvents /\ clock' <= MaxClock
    \/ \E c \in C, id \in ids : GetEvent(c, id)
    \/ \E c \in C, id \in ids, data \in payloads : PutEvent(c, id, data)
    \/ \E c \in C, id \in ids : RemoveEvent(c, id)

Next == Requests(Clients, LoginInputs, EventInputs, EventIds, ListInputs)

Spec == Init /\ [][Next]_vars

\* ------------------------------------------- handlers, one storage step each
\* Every handler opens its own connection.  A SELECT outside a transaction
\* reads the committed rows.  The first UPDATE or DELETE of a connection
\* begins a transaction and takes the database's write lock, which it keeps
\* until its commit; another writer waits for the lock (sqlite3's default
\* timeout is taken not to expire).  Inside the transaction the connection
\* reads its own uncommitted rows.
Running(c) == work[c].pc # "idle"

\* update_event up to the existence check
PutStart(c, event_id, data) ==
    LET title == Strip(Get(data.title, <<>>))
        date == Get(data.date, <<>>)
        rq == [id |-> event_id, data |-> data]
    IN  /\ ~Running(c)
        /\ IF ~LoggedIn(c)
           THEN /\ resp' = Resp("update", c, 401, rq, None)
                /\ UNCHANGED work
           ELSE IF Falsy(title) \/ Falsy(date)
           THEN /\ resp' = Resp("update", c, 400, rq, None)
                /\ UNCHANGED work
           ELSE IF SelectEvent(events, event_id) = None
           THEN /\ resp' = Resp("update", c, 404, rq, None)
                /\ UNCHANGED work
           ELSE /\ work' = [work EXCEPT ![c] = [pc |-> "put_write", rq |-> rq]]
                /\ UNCHANGED resp
        /\ UNCHANGED <<timeColumns, session, events, seq, clock, txn>>

\* the UPDATE statement
PutWrite(c) ==
    LET rq == work[c].rq
        data == rq.data
        tbl == UpdateEvent(events, rq.id, Strip(Get(data.title, <<>>)),
                           Get(data.date, <<>>), Get(data.start_time, <<>>),
                           Get(data.end_time, <<>>), data.user_id)
    IN  /\ work[c].pc = "put_write"
        /\ txn = None
        /\ IF ~timeColumns \/ ViolatesNotNull(events, rq.id, data.user_id)
           THEN /\ resp' = Resp("update", c, 500, rq, None)
                /\ work' = [work EXCEPT ![c] = Idle]
                /\ UNCHANGED txn
           ELSE /\ txn' = Some([owner |-> c, rows |-> tbl])
                /\ work' = [work EXCEPT ![c].pc = "put_read"]
                /\ UNCHANGED resp
        /\ UNCHANGED <<timeColumns, session, events, seq, clock>>

\* the SELECT that fetches the updated event
PutRead(c) ==
    /\ work[c].pc = "put_read"
    /\ work' = [work EXCEPT ![c] =
                  [pc |-> "put_commit", rq |-> work[c].rq,
                   event |-> SelectEnriched(txn[1].rows, work[c].rq.id)]]
    /\ UNCHANGED <<timeColumns, session, events, seq, clock, resp, txn>>

\* commit, close, and the response
PutCommit(c) ==
    /\ work[c].pc = "put_commit"
    /\ events' = txn[1].rows
    /\ txn' = None
    /\ resp' = IF work[c].event = None
               THEN \* dict(None) raises
                    Resp("update", c, 500, work[c].rq, None)
               ELSE Resp("update", c, 200, work[c].rq, work[c].event[1])
    /\ work' = [work EXCEPT ![c] = Idle]
    /\ UNCHANGED <<timeColumns, session, seq, clock>>

\* delete_event up to the existence check
RemoveStart(c, event_id) ==
    /\ ~Running(c)
    /\ IF ~LoggedIn(c)
       THEN /\ resp' = Resp("delete", c, 401, event_id, None)
            /\ UNCHANGED work
       ELSE IF SelectEvent(events, event_id) = None
       THEN /\ resp' = Resp("delete", c, 404, event_id, None)
            /\ UNCHANGED work
       ELSE /\ work' = [work EXCEPT ![c] = [pc |-> "remove_write", rq |-> event_id]]
            /\ UNCHANGED resp
    /\ UNCHANGED <<timeColumns, session, events, seq, clock, txn>>

\* the DELETE statement
RemoveWrite(c) ==
    /\ work[c].pc = "remove_write"
    /\ txn = None
    /\ txn' = Some([owner |-> c, rows |-> DeleteEvent(events, work[c].rq)])
    /\ work' = [work EXCEPT ![c].pc = "remove_commit"]
    /\ UNCHANGED <<timeColumns, session, events, seq, clock, resp>>

\* commit, close, and the response
RemoveCommit(c) ==
    /\ work[c].pc = "remove_commit"
    /\ events' = txn[1].rows
    /\ txn' = None
    /\ resp' = Resp("delete", c, 200, work[c].rq, None)
    /\ work' = [work EXCEPT ![c] = Idle]
    /\ UNCHANGED <<timeColumns, session, seq, clock>>

ConcLogins == { [user_id |-> Some(1)] }
ConcIds == 1..MaxEvents
ConcCreates == { Payload(Some(TitleA), Some(Date1), None, None, None) }
ConcUpdates ==
    { Payload(Some(TitleA), Some(Date1), Some(Time9), None, Some(1)),
      Payload(Some(TitleB), Some(Date1), None, Some(Time10), Some(2)) }

NextConc ==
    \/ \E c \in Clients, data \in ConcLogins : ~Running(c) /\ Login(c, data)
    \/ \E c \in Clients : ~Running(c) /\ Logout(c)
    \/ \E c \in Clients, data \in ConcCreates :
          /\ ~Running(c) /\ txn = None /\ CreateEvent(c, data)
          /\ seq' <= MaxEvents /\ clock' <= MaxClock
    \/ \E c \in Clients, id \in ConcIds : ~Running(c) /\ GetEvent(c, id)
    \/ \E c \in Clients, id \in ConcIds, data \in ConcUpdates : PutStart(c, id, data)
    \/ \E c \in Clients : PutWrite(c)
    \/ \E c \in Clients : PutRead(c)
    \/ \E c \in Clients : PutCommit(c)
    \/ \E c \in Clients, id \in ConcIds : RemoveStart(c, id)
    \/ \E c \in Clients : RemoveWrite(c)
    \/ \E c \in Clients : RemoveCommit(c)

SpecConc == Init /\ [][NextConc]_vars

\* ------------------------------------------- one user's history of titles
MaxTitled == 12         \* events created in one behaviour of SpecTitles
MaxReuse == 1           \* creations that reuse the first title
MaxSameTick == 0        \* creations that read the same clock value as the one before

\* "t1", "t2", ...
TitleNo(k) == <<"t">> \o IntStr(k)
TitlePayloads == { Payload(Some(TitleNo(k)), Some(Date1), None, None, None) :
                   k \in 1..MaxTitled }
\* the creation uses the next unused title or the first title once more
NextTitle(data) == data.title \in {Some(TitleNo(seq + 1)), Some(TitleNo(1))}
Reused(tbl) == Cardinality({ e \in tbl : e.title = TitleNo(1) }) - 1
\* event 1 is handed to another user
HandOver == Payload(Some(TitleNo(1)), Some(Date1), None, None, Some(2))

NextTitles ==
    \/ Login("c1", [user_id |-> Some(1)])
    \/ Logout("c1")
    \/ GetSavedTitles("c1")
    \/ \E data \in TitlePayloads :
          /\ NextTitle(data)
          /\ CreateEvent("c1", data)
          /\ seq' <= MaxTitled
          /\ Reused(events') <= MaxReuse
          /\ seq' - clock' <= MaxSameTick
    \/ PutEvent("c1", 1, HandOver)

SpecTitles == Init /\ [][NextTitles]_vars

\* ================================================================ claims
\* vocabulary of the claims, stated without the handlers' own operators
Mutations == {"create", "update", "delete"}
IsBlank(s) == \A i \in 1..Len(s) : s[i] = " "
SuppliedTitle(data) == IF data.title = <<>> THEN <<>> ELSE data.title[1]
HasDate(data) == data.date # <<>> /\ data.date[1] # <<>>
Trimmed(s) ==
    IF IsBlank(s) THEN <<>>
    ELSE LET lo == CHOOSE i \in 1..Len(s) :
                     s[i] # " " /\ \A j \in 1..(i - 1) : s[j] = " "
             hi == CHOOSE i \in 1..Len(s) :
                     s[i] # " " /\ \A j \in (i + 1)..Len(s) : s[j] = " "
         IN  [k \in 1..(hi - lo + 1) |-> s[lo + k - 1]]
HasRow(tbl, id) == \E e \in tbl : e.id = id
TargetId(r) == IF r.op = "update" THEN r.req.id ELSE r.req
DigitValue(ch) == CHOOSE n \in 0..9 : Digit(n) = ch
RECURSIVE NumberOf(_)
NumberOf(s) == IF Len(s) = 0 THEN 0
               ELSE 10 * NumberOf([k \in 1..(Len(s) - 1) |-> s[k]]) + DigitValue(s[Len(s)])
\* the calendar month a stored YYYY-MM-DD date lies in
InMonth(d, y, m) == /\ NumberOf([k \in 1..4 |-> d[k]]) = y
                    /\ NumberOf([k \in 1..2 |-> d[k + 5]]) = m

\* C1: a month query answers 200 with exactly the stored events whose date
\* lies in that calendar month, none missing and none extra.
C1_MonthListing ==
    (resp.op = "list" /\ resp.req.year # <<>> /\ resp.req.month # <<>>) =>
        /\ resp.status = 200
        /\ { resp.body[i].event : i \in 1..Len(resp.body) }
             = { e \in events :
                   InMonth(e.date, NumberOf(resp.req.year), NumberOf(resp.req.month)) }

\* C2: with a bound session, CreateEvent with a blank title answers 400, and
\* with a non-blank title and a date it answers 201 and GetEvent on the
\* returned id then answers 200.
C2_CreateThenGet ==
    (resp.op = "create" /\ session[resp.client] # <<>>) =>
        /\ IsBlank(SuppliedTitle(resp.req)) => resp.status = 400
        /\ (~IsBlank(SuppliedTitle(resp.req)) /\ HasDate(resp.req)) =>
              /\ resp.status = 201
              /\ GetEventResp(resp.client, events, resp.body.event.id).status = 200

\* C3: a create, update or delete by a client without a bound session answers
\* 401 and leaves the events table as it was, so the table changes only in a
\* mutation by a client whose session is bound.
C3_UnboundIsRefused ==
    [][ /\ (resp'.op \in Mutations /\ session[resp'.client] = <<>>) =>
              (resp'.status = 401 /\ events' = events)
        /\ events' # events =>
              (resp'.op \in Mutations /\ session[resp'.client] # <<>>) ]_vars
\* an update of a stored event was refused for want of a session
C3_Witness ==
    /\ resp.op = "update" /\ resp.status = 401
    /\ HasRow(events, resp.req.id)
\* a bound client changed an event that another user owns
C3_NotTheOwner ==
    /\ resp.op = "update" /\ resp.status = 200
    /\ session[resp.client] # <<>>
    /\ \E e \in events : /\ e.id = resp.req.id
                         /\ e.user_id # <<session[resp.client][1].user_id>>
                         /\ resp.req.data.user_id = e.user_id

\* C4 as claimed: with a bound session, an update or delete of an id that is
\* not stored answers 404 whatever the payload, and the table is unchanged.
C4_MissingIdIsNotFound ==
    [][ ( /\ resp'.op \in {"update", "delete"}
          /\ session[resp'.client] # <<>>
          /\ ~HasRow(events, TargetId(resp')) ) =>
              (resp'.status = 404 /\ events' = events) ]_vars
\* C4 as amended: with a bound session and an id that is not stored, a delete
\* answers 404, an update answers 400 when its title is blank or its date is
\* missing and 404 otherwise, and the table is unchanged.
C4_MissingIdAfterValidation ==
    [][ ( /\ resp'.op \in {"update", "delete"}
          /\ session[resp'.client] # <<>>
          /\ ~HasRow(events, TargetId(resp')) ) =>
              /\ events' = events
              /\ resp'.status =
                   IF /\ resp'.op = "update"
                      /\ \/ IsBlank(SuppliedTitle(resp'.req.data))
                         \/ ~HasDate(resp'.req.data)
                   THEN 400 ELSE 404 ]_vars
\* an update of a missing id with an invalid payload was answered 400
C4_Witness ==
    /\ resp.op = "update" /\ resp.status = 400
    /\ session[resp.client] # <<>>
    /\ events # {} /\ ~HasRow(events, resp.req.id)

C6_LoggedOutUntilLogin ==
    [][ \A c \in Clients :
          /\ (resp'.op = "logout" /\ resp'.client = c) =>
                (resp'.status = 200 /\ session' = [session EXCEPT ![c] = <<>>])
          /\ (session[c] = <<>> /\ session'[c] # <<>>) =>
                (resp'.op = "login" /\ resp'.client = c /\ resp'.status = 200)
          /\ (session[c] = <<>> /\ resp'.client = c) =>
                /\ resp'.op = "current_user" => resp'.body = <<>>
                /\ resp'.op = "saved_titles" => resp'.body = <<>>
                /\ resp'.op \in Mutations => resp'.status = 401 ]_vars
\* events exist, so a client had logged in; all are logged out and a create
\* was refused
C6_Witness ==
    /\ resp.op = "create" /\ resp.status = 401
    /\ events # {}
    /\ \A c \in Clients : session[c] = <<>>

\* C8: every stored event is owned by a stored user.
C8_OwnersExist ==
    \A e \in events : \E u \in Users : e.user_id = <<u.id>>

\* C9: an update by a bound client of a stored event with a non-blank title
\* and a date answers 200 with the updated event, which has the supplied
\* title, date, times and user_id and its old id and created_at; the other
\* events are unchanged.
C9_FullReplace ==
    [][ ( /\ resp'.op = "update"
          /\ session[resp'.client] # <<>>
          /\ HasRow(events, resp'.req.id)
          /\ ~IsBlank(SuppliedTitle(resp'.req.data))
          /\ HasDate(resp'.req.data) ) =>
              \E old \in events :
                 /\ old.id = resp'.req.id
                 /\ \E new \in events' :
                      /\ new = [id |-> old.id,
                                title |-> Trimmed(SuppliedTitle(resp'.req.data)),
                                date |-> resp'.req.data.date[1],
                                time |-> old.time,
                                start_time |-> resp'.req.data.start_time,
                                end_time |-> resp'.req.data.end_time,
                                user_id |-> resp'.req.data.user_id,
                                created_at |-> old.created_at]
                      /\ events' = (events \ {old}) \cup {new}
                      /\ resp'.status = 200
                      /\ resp'.body.event = new ]_vars

\* the clock value a stored created_at was formatted from
TickOf(text) == CHOOSE t \in 0..clock : IsoFormat(t) = text
Largest(S) == CHOOSE m \in S : \A x \in S : x <= m

\* C7: without a bound session SavedTitles gives the empty list; for a bound
\* user it gives at most 10 titles, no title twice, each the title of a
\* stored event of that user, in descending order of the latest creation
\* time among the user's events with the title; when the user has more than
\* 10 titles, 10 are given and no title left out is more recent than one given.
C7_SavedTitles ==
    resp.op = "saved_titles" =>
        IF session[resp.client] = <<>> THEN resp.body = <<>>
        ELSE LET mine == { e \in events :
                             e.user_id = <<session[resp.client][1].user_id>> }
                 used == { e.title : e \in mine }
                 last(t) == Largest({ TickOf(e.created_at) :
                                        e \in { x \in mine : x.title = t } })
                 ts == resp.body
                 given == { ts[i] : i \in 1..Len(ts) }
             IN  /\ Len(ts) <= 10
                 /\ \A i, j \in 1..Len(ts) : i # j => ts[i] # ts[j]
                 /\ given \subseteq used
                 /\ \A i, j \in 1..Len(ts) : i < j => last(ts[i]) >= last(ts[j])
                 /\ Cardinality(used) > 10 =>
                       /\ Len(ts) = 10
                       /\ \A t \in used \ given : \A g \in given : last(t) <= last(g)
\* the user has more than 10 titles and the first one, used again last of
\* all, heads the 10 that are given
C7_Witness ==
    /\ resp.op = "saved_titles"
    /\ session[resp.client] # <<>>
    /\ Cardinality({ e.title : e \in { x \in events : x.user_id = <<1>> } }) > 10
    /\ Len(resp.body) = 10
    /\ resp.body[1] = TitleNo(1)

\* the values of a payload, as a row holds them
IsReplacement(e, d) ==
    /\ e.title = Trimmed(SuppliedTitle(d)) /\ e.date = d.date[1]
    /\ e.start_time = d.start_time /\ e.end_time = d.end_time
    /\ e.user_id = d.user_id
\* every stored event is as some creation or some one update wrote it
NoMixture ==
    \A e \in events :
       \/ \E d \in ConcUpdates : IsReplacement(e, d)
       \/ \E d \in ConcCreates, u \in Users :
             IsReplacement(e, [d EXCEPT !.user_id = <<u.id>>])

\* C10: under every interleaving of the handlers' storage steps, an update
\* that passed its existence check reads back the row it wrote, every update
\* by a bound client with a valid payload ends with 404 or with 200 and the
\* row it wrote, and no stored event mixes the fields of two updates.
C10_UpdateReadsItsWrite ==
    /\ \A c \in Clients : work[c].pc = "put_commit" => work[c].event # <<>>
    /\ (resp.op = "update" /\ resp.status \notin {400, 401}) =>
          \/ resp.status = 404
          \/ resp.status = 200 /\ IsReplacement(resp.body.event, resp.req.data)
    /\ NoMixture

====
